---- MODULE Spec2Model ----
(***************************************************************************)
(* Model of products/htmx-blog/app.py: a Flask application that keeps blog *)
(* posts in one SQLite table and answers every request with HTML fragments.*)
(*                                                                         *)
(* Text is a sequence of one-character strings.  A response is a record    *)
(* of the status code, the rendered template (the primary fragment), the   *)
(* out-of-band flash fragment appended after it, and the headers.          *)
(***************************************************************************)
EXTENDS Integers, Sequences, FiniteSets, TLC

(***************************************************************************)
(* Bounds of the model.                                                    *)
(***************************************************************************)
\* number of INSERT and UPDATE statements the handlers execute in one run
MaxWrites == 1
\* clock readings are 0..MaxTime
MaxTime == 1
\* the longest body and the largest max_length a preview is computed for
MaxBodyLen == 4
MaxPreviewLength == 2

VARIABLES
    posts,        \* the rows of table posts, in rowid order
    seq,          \* sqlite_sequence: the largest id ever assigned
    request,      \* the request handled last
    response,     \* the response it got
    pending,      \* an update_post between its commit and its SELECT
    lastCreated,  \* history: the id the last create_post assigned and the
                  \* title submitted to it, trimmed, while that post has
                  \* been neither updated nor deleted
    noopDeletes,  \* history: consecutive delete_post requests that found
                  \* no row to delete (counted up to 2)
    writes,       \* history: the number of INSERT and UPDATE statements
                  \* the handlers have executed
    opened,       \* the connections the request handled last has opened
    connections   \* the connections that are open now

vars == <<posts, seq, request, response, pending, lastCreated, noopDeletes,
         writes, opened, connections>>

(***************************************************************************)
(* Text                                                                    *)
(***************************************************************************)
Whitespace == {" ", "\t", "\n"}

RECURSIVE lstrip(_)
lstrip(s) ==
    IF s # <<>> /\ Head(s) \in Whitespace THEN lstrip(Tail(s)) ELSE s

RECURSIVE rstrip(_)
rstrip(s) ==
    IF s # <<>> /\ s[Len(s)] \in Whitespace
    THEN rstrip(SubSeq(s, 1, Len(s) - 1))
    ELSE s

\* str.strip()
strip(s) == rstrip(lstrip(s))

\* str.replace(c, "")
replace(s, c) == SelectSeq(s, LAMBDA x : x # c)

\* str.split(): the maximal runs of non-whitespace characters
RECURSIVE split(_)
split(s) ==
    LET t == lstrip(s)
        wordLen == IF \E i \in 1..Len(t) : t[i] \in Whitespace
                   THEN (CHOOSE i \in 1..Len(t) :
                            /\ t[i] \in Whitespace
                            /\ \A j \in 1..(i - 1) : t[j] \notin Whitespace) - 1
                   ELSE Len(t)
    IN  IF t = <<>> THEN <<>>
        ELSE <<SubSeq(t, 1, wordLen)>> \o split(SubSeq(t, wordLen + 1, Len(t)))

\* " ".join(words)
RECURSIVE join(_)
join(words) ==
    IF words = <<>> THEN <<>>
    ELSE IF Len(words) = 1 THEN words[1]
    ELSE words[1] \o <<" ">> \o join(Tail(words))

DefaultMaxLength == 200

\* the backquote character, which a TLA+ string cannot hold
Backquote == "BQ"

\* get_post_preview cutting a text that is exactly max_length long
get_post_preview_Inclusive(body, max_length) ==
    LET stripped == replace(replace(replace(replace(body, "#"), "*"), Backquote), ">")
        plain == join(split(stripped))
    IN  IF Len(plain) >= max_length
        THEN SubSeq(plain, 1, max_length) \o <<".", ".", ".">>
        ELSE plain

get_post_preview(body, max_length) ==
    LET stripped == replace(replace(replace(replace(body, "#"), "*"), Backquote), ">")
        plain == join(split(stripped))
    IN  IF Len(plain) > max_length
        THEN SubSeq(plain, 1, max_length) \o <<".", ".", ".">>
        ELSE plain

\* markdown.markdown(text, ...) of the external library, reduced to the two
\* block kinds the modelled bodies contain: an ATX heading and a paragraph.
render_markdown(text) ==
    IF text = <<>> THEN <<>>
    ELSE IF Len(text) >= 2 /\ text[1] = "#" /\ text[2] = " "
    THEN <<"<h1>">> \o strip(SubSeq(text, 3, Len(text))) \o <<"</h1>">>
    ELSE <<"<p>">> \o text \o <<"</p>">>

(***************************************************************************)
(* Timestamps: datetime.now().isoformat().  A clock reading t stands for   *)
(* second t \div 2 and microsecond t % 2; isoformat() leaves the fraction  *)
(* out when the microsecond is 0.  The table stores the text, and SQLite   *)
(* compares it as text.  datetime.now() is the naive local wall clock: a   *)
(* later call may read an earlier time (the clock is set back, daylight    *)
(* saving time ends), so each call reads any of the Times.                 *)
(***************************************************************************)
Times == 0..MaxTime

Charset == <<".", "0", "1", "2", "3", "4", "5", "6", "7", "8", "9">>

Ord(c) == CHOOSE i \in 1..Len(Charset) : Charset[i] = c

isoformat(t) ==
    LET sec == Charset[(t \div 2) + 2]
        usec == Charset[(t % 2) + 2]
    IN  IF t % 2 = 0 THEN <<sec>> ELSE <<sec, ".", usec>>

\* SQLite's BINARY collation on TEXT: a < b
RECURSIVE TextLess(_, _)
TextLess(a, b) ==
    IF b = <<>> THEN FALSE
    ELSE IF a = <<>> THEN TRUE
    ELSE IF Head(a) # Head(b) THEN Ord(Head(a)) < Ord(Head(b))
    ELSE TextLess(Tail(a), Tail(b))

TextLeq(a, b) == a = b \/ TextLess(a, b)

(***************************************************************************)
(* The table posts and the statements the handlers execute.  A row is a    *)
(* record; the table is the sequence of its rows in rowid order, and       *)
(* AUTOINCREMENT assigns one more than the largest id ever assigned.       *)
(***************************************************************************)
Row(id, title, body, created_at, updated_at) ==
    [id |-> id, title |-> title, body |-> body,
     created_at |-> created_at, updated_at |-> updated_at]

\* the INSERT into a table whose id is INTEGER PRIMARY KEY without
\* AUTOINCREMENT: one more than the largest id the table holds
SqlInsert_MaxRowid(rows, lastId, title, body, created_at, updated_at) ==
    LET held == {rows[i].id : i \in 1..Len(rows)}
        largest == IF held = {} THEN 0
                   ELSE CHOOSE m \in held : \A n \in held : n <= m
    IN  Append(rows, Row(largest + 1, title, body, created_at, updated_at))

\* INSERT INTO posts (title, body, created_at, updated_at) VALUES (?, ?, ?, ?)
SqlInsert(rows, lastId, title, body, created_at, updated_at) ==
    Append(rows, Row(lastId + 1, title, body, created_at, updated_at))

\* the UPDATE without its WHERE clause
SqlUpdate_NoWhere(rows, title, body, now, post_id) ==
    [i \in 1..Len(rows) |->
        [rows[i] EXCEPT !.title = title, !.body = body, !.updated_at = now]]

\* UPDATE posts SET title = ?, body = ?, updated_at = ? WHERE id = ?
SqlUpdate(rows, title, body, now, post_id) ==
    [i \in 1..Len(rows) |->
        IF rows[i].id = post_id
        THEN [rows[i] EXCEPT !.title = title, !.body = body, !.updated_at = now]
        ELSE rows[i]]

\* DELETE FROM posts WHERE id = ?
SqlDelete(rows, post_id) == SelectSeq(rows, LAMBDA r : r.id # post_id)

\* SELECT * FROM posts WHERE id = ?  with fetchone(): <<>> stands for None
SqlSelectById(rows, post_id) ==
    LET found == SelectSeq(rows, LAMBDA r : r.id = post_id)
    IN  IF found = <<>> THEN <<>> ELSE <<Head(found)>>

\* the same SELECT without DESC
RECURSIVE SqlSelectAll_Ascending(_)
SqlSelectAll_Ascending(rows) ==
    IF rows = <<>> THEN <<>>
    ELSE LET first == CHOOSE i \in 1..Len(rows) :
                        /\ \A j \in 1..Len(rows) :
                              TextLeq(rows[i].created_at, rows[j].created_at)
                        /\ \A j \in 1..(i - 1) :
                              rows[j].created_at # rows[i].created_at
             rest == [k \in 1..(Len(rows) - 1) |->
                        IF k < first THEN rows[k] ELSE rows[k + 1]]
         IN  <<rows[first]>> \o SqlSelectAll_Ascending(rest)

\* SELECT * FROM posts ORDER BY created_at DESC: SQLite scans the table in
\* rowid order into its sorter, which keeps rows of equal created_at in the
\* order they arrived.
RECURSIVE SqlSelectAll(_)
SqlSelectAll(rows) ==
    IF rows = <<>> THEN <<>>
    ELSE LET first == CHOOSE i \in 1..Len(rows) :
                        /\ \A j \in 1..Len(rows) :
                              TextLeq(rows[j].created_at, rows[i].created_at)
                        /\ \A j \in 1..(i - 1) :
                              rows[j].created_at # rows[i].created_at
             rest == [k \in 1..(Len(rows) - 1) |->
                        IF k < first THEN rows[k] ELSE rows[k + 1]]
         IN  <<rows[first]>> \o SqlSelectAll(rest)

(***************************************************************************)
(* init_db: the three seed posts, inserted with one clock reading.  The    *)
(* seed texts are cut to their first words.                                *)
(***************************************************************************)
seed_posts ==
    << [title |-> <<"W", "e", "l", "c", "o", "m", "e">>,
        body  |-> <<"#", " ", "H", "e", "l", "l", "o", ",", " ",
                    "W", "o", "r", "l", "d", "!">>],
       [title |-> <<"W", "h", "y", " ", "H", "T", "M", "X", "?">>,
        body  |-> <<"H", "T", "M", "X", " ", "l", "e", "t", "s">>],
       [title |-> <<"M", "a", "r", "k", "d", "o", "w", "n", " ",
                    "T", "i", "p", "s">>,
        body  |-> <<"T", "h", "i", "s", " ", "b", "l", "o", "g">>] >>

init_db(now) ==
    [i \in 1..Len(seed_posts) |->
        Row(i, seed_posts[i].title, seed_posts[i].body, now, now)]

(***************************************************************************)
(* Requests.  A form maps the submitted field names to their text; a field *)
(* may be missing.                                                         *)
(***************************************************************************)
Hello == <<"H", "e", "l", "l", "o">>
World == <<"W", "o", "r", "l", "d">>

Forms ==
    { [title |-> Hello, body |-> World],
      [title |-> <<" ">> \o Hello \o <<"\t">>, body |-> <<"\n">> \o World \o <<" ">>],
      [title |-> Hello, body |-> <<" ", "\n">>],
      [f \in {"body"} |-> World] }

NoForm == [f \in {} |-> <<>>]

\* request.form.get(field, default)
form_get(form, field, default) ==
    IF field \in DOMAIN form THEN form[field] ELSE default

\* the ids requests name: those of all posts a run can store
PostIds == 1..(Len(seed_posts) + MaxWrites)

Request(op, post_id, form) == [op |-> op, post_id |-> post_id, form |-> form]

(***************************************************************************)
(* Responses                                                               *)
(***************************************************************************)
\* flash_message(message, category): the out-of-band flash fragment
flash_message(message, category) == [message |-> message, category |-> category]

DefaultCategory == "success"

\* the posts_with_preview list the list handlers build
posts_with_preview(rows) ==
    [i \in 1..Len(rows) |->
        [id |-> rows[i].id, title |-> rows[i].title, body |-> rows[i].body,
         preview |-> get_post_preview(rows[i].body, DefaultMaxLength),
         created_at |-> rows[i].created_at,
         updated_at |-> rows[i].updated_at]]

\* A response: the status, the template rendered as primary fragment ("" when
\* there is none) with its arguments, the flash fragments appended after it,
\* the headers, and the exception that ended the handler ("" when none).
Response(status, template, list, post, rendered_body, flash, headers, exception) ==
    [status |-> status, template |-> template, posts |-> list, post |-> post,
     rendered_body |-> rendered_body, flash |-> flash, headers |-> headers,
     exception |-> exception]

PushUrl == {<<"HX-Push-Url", "/">>}

\* make_response(flash_message(message, "error")) with a status code
ErrorResponse(status, message) ==
    Response(status, "", <<>>, <<>>, <<>>,
             <<flash_message(message, "error")>>, {}, "")

\* render_template("index.html", posts=...), optionally followed by a flash
ListResponse(rows, flash, headers) ==
    Response(200, "index.html", posts_with_preview(rows), <<>>, <<>>,
             flash, headers, "")

\* render_template of a one-post template
PostResponse(template, post, rendered_body, flash) ==
    Response(200, template, <<>>, post, rendered_body, flash, {}, "")

\* an exception nobody catches: Flask answers 500
UnhandledException(name) ==
    Response(500, "", <<>>, <<>>, <<>>, <<>>, {}, name)

Init ==
    /\ \E now \in Times : posts = init_db(isoformat(now))
    /\ seq = Len(seed_posts)
    /\ request = Request("init_db", 0, NoForm)
    /\ response = Response(0, "", <<>>, <<>>, <<>>, <<>>, {}, "")
    /\ pending = <<>>
    /\ lastCreated = <<>>
    /\ noopDeletes = 0
    /\ writes = 0
    /\ opened = 0
    /\ connections = 0

(***************************************************************************)
(* Notions the properties are stated in: what was submitted, and what it   *)
(* is after trimming.                                                      *)
(***************************************************************************)
\* a text that is empty after trimming: it holds nothing but whitespace
IsBlank(text) == \A i \in 1..Len(text) : text[i] \in Whitespace

\* the submitted text of a field, "" when the field is missing
Submitted(form, field) == IF field \in DOMAIN form THEN form[field] ELSE <<>>

\* a form that validation must reject
Rejected(form) == IsBlank(Submitted(form, "title")) \/ IsBlank(Submitted(form, "body"))

\* the text between the first and the last non-whitespace character
Trimmed(text) ==
    IF IsBlank(text) THEN <<>>
    ELSE LET solid == {i \in 1..Len(text) : text[i] \notin Whitespace}
             lo == CHOOSE i \in solid : \A j \in solid : i <= j
             hi == CHOOSE i \in solid : \A j \in solid : j <= i
         IN  SubSeq(text, lo, hi)

(***************************************************************************)
(* The connection of a request.  g, the context of one request, is the     *)
(* sequence of the connections it holds: none when the request starts, and *)
(* g.db once get_db() has run.  init_db opens and closes its own.          *)
(***************************************************************************)
NoG == <<>>

\* get_db(): connects unless g holds a connection already
get_db(g) == IF g = <<>> THEN <<"db">> ELSE g

\* close_db forgetting db.close(): it closes nothing
close_db_NoClose(g) == 0

\* close_db(exception): the number of connections it closes, having popped
\* g.db; Flask runs it when the request ends, with or without an exception
close_db(g) == Len(g)

\* the end of a request that held g
Teardown(g) ==
    /\ opened' = Len(g)
    /\ connections' = connections + Len(g) - close_db(g)

(***************************************************************************)
(* The handlers.  Each action is one request handled from start to end.    *)
(***************************************************************************)
\* the two history variables after a request that deletes and writes nothing
ReadOnlyHistory ==
    /\ lastCreated' = lastCreated
    /\ noopDeletes' = 0

\* GET /
index ==
    /\ request' = Request("index", 0, NoForm)
    /\ response' = ListResponse(SqlSelectAll(posts), <<>>, {})
    /\ ReadOnlyHistory
    /\ Teardown(get_db(NoG))
    /\ UNCHANGED <<posts, seq, pending, writes>>

\* GET /posts/new
new_post ==
    /\ request' = Request("new_post", 0, NoForm)
    /\ response' = PostResponse("post_form.html", <<>>, <<>>, <<>>)
    /\ ReadOnlyHistory
    /\ Teardown(NoG)
    /\ UNCHANGED <<posts, seq, pending, writes>>

\* the validation both form handlers start with
FormTitle(form) == strip(form_get(form, "title", <<>>))

\* the body taken without .strip()
FormBody_Unstripped(form) == form_get(form, "body", <<>>)

FormBody(form) == strip(form_get(form, "body", <<>>))

\* a validation that forgets the body
FormValid_TitleOnly(form) == ~(FormTitle(form) = <<>>)

\* a validation that rejects only when both fields are empty
FormValid_BothEmpty(form) == ~(FormTitle(form) = <<>> /\ FormBody(form) = <<>>)

FormValid(form) == ~(FormTitle(form) = <<>> \/ FormBody(form) = <<>>)

\* create_post answering with the listing read before its INSERT
create_post_StaleList(form) ==
    LET title == FormTitle(form)
        body == FormBody(form)
    IN  /\ request' = Request("create_post", 0, form)
        /\ noopDeletes' = 0
        /\ pending' = pending
        /\ IF ~FormValid(form)
           THEN /\ response' = ErrorResponse(422, "Title and body are required.")
                /\ Teardown(NoG)
                /\ UNCHANGED <<posts, seq, lastCreated, writes>>
           ELSE /\ writes < MaxWrites
                /\ writes' = writes + 1
                /\ Teardown(get_db(NoG))
                /\ \E now \in Times :
                      posts' = SqlInsert(posts, seq, title, body,
                                         isoformat(now), isoformat(now))
                /\ seq' = seq + 1
                /\ response' = ListResponse(SqlSelectAll(posts),
                        <<flash_message("Post created successfully!", DefaultCategory)>>,
                        PushUrl)
                /\ lastCreated' = <<[id |-> seq + 1,
                                   title |-> Trimmed(Submitted(form, "title"))]>>

\* POST /posts
create_post(form) ==
    LET title == FormTitle(form)
        body == FormBody(form)
    IN  /\ request' = Request("create_post", 0, form)
        /\ noopDeletes' = 0
        /\ pending' = pending
        /\ IF ~FormValid(form)
           THEN /\ response' = ErrorResponse(422, "Title and body are required.")
                /\ Teardown(NoG)
                /\ UNCHANGED <<posts, seq, lastCreated, writes>>
           ELSE /\ writes < MaxWrites
                /\ writes' = writes + 1
                /\ Teardown(get_db(NoG))
                /\ \E now \in Times :
                      posts' = SqlInsert(posts, seq, title, body,
                                         isoformat(now), isoformat(now))
                /\ seq' = seq + 1
                /\ response' = ListResponse(SqlSelectAll(posts'),
                        <<flash_message("Post created successfully!", DefaultCategory)>>,
                        PushUrl)
                /\ lastCreated' = <<[id |-> seq + 1,
                                   title |-> Trimmed(Submitted(form, "title"))]>>

\* the lookup handing the body to the template as it is stored
LookupResponse_RawBody(rows, post_id, template, rendered) ==
    LET post == SqlSelectById(rows, post_id)
    IN  IF post = <<>>
        THEN ErrorResponse(404, "Post not found.")
        ELSE PostResponse(template, post,
                          IF rendered THEN post[1].body ELSE <<>>,
                          <<>>)

\* the lookup that never sets response.status_code = 404
LookupResponse_Status200(rows, post_id, template, rendered) ==
    LET post == SqlSelectById(rows, post_id)
    IN  IF post = <<>>
        THEN ErrorResponse(200, "Post not found.")
        ELSE PostResponse(template, post,
                          IF rendered THEN render_markdown(post[1].body) ELSE <<>>,
                          <<>>)

\* the lookup the three one-post views share: 404 when fetchone() gives None
LookupResponse(rows, post_id, template, rendered) ==
    LET post == SqlSelectById(rows, post_id)
    IN  IF post = <<>>
        THEN ErrorResponse(404, "Post not found.")
        ELSE PostResponse(template, post,
                          IF rendered THEN render_markdown(post[1].body) ELSE <<>>,
                          <<>>)

\* GET /posts/<post_id>
view_post(post_id) ==
    /\ request' = Request("view_post", post_id, NoForm)
    /\ response' = LookupResponse(posts, post_id, "post.html", TRUE)
    /\ ReadOnlyHistory
    /\ Teardown(get_db(NoG))
    /\ UNCHANGED <<posts, seq, pending, writes>>

\* GET /posts/<post_id>/edit
edit_post(post_id) ==
    /\ request' = Request("edit_post", post_id, NoForm)
    /\ response' = LookupResponse(posts, post_id, "post_form.html", FALSE)
    /\ ReadOnlyHistory
    /\ Teardown(get_db(NoG))
    /\ UNCHANGED <<posts, seq, pending, writes>>

\* GET /posts/<post_id>/confirm-delete
confirm_delete(post_id) ==
    /\ request' = Request("confirm_delete", post_id, NoForm)
    /\ response' = LookupResponse(posts, post_id, "confirm_delete.html", FALSE)
    /\ ReadOnlyHistory
    /\ Teardown(get_db(NoG))
    /\ UNCHANGED <<posts, seq, pending, writes>>

\* update_post answering with the header that create_post and delete_post
\* set
UpdateFetch_PushUrl(rows, post_id) ==
    LET post == SqlSelectById(rows, post_id)
    IN  IF post = <<>>
        THEN UnhandledException("TypeError")
        ELSE Response(200, "post.html", <<>>, post,
                render_markdown(post[1].body),
                <<flash_message("Post updated successfully!", DefaultCategory)>>,
                PushUrl, "")

\* update_post after its commit: the SELECT and the rendering.  post["body"]
\* on the None that fetchone() gives for a missing row raises TypeError.
UpdateFetch(rows, post_id) ==
    LET post == SqlSelectById(rows, post_id)
    IN  IF post = <<>>
        THEN UnhandledException("TypeError")
        ELSE PostResponse("post.html", post, render_markdown(post[1].body),
                <<flash_message("Post updated successfully!", DefaultCategory)>>)

\* the history of the last create_post ends when its post is written again
Touched(post_id) ==
    IF lastCreated # <<>> /\ lastCreated[1].id = post_id
    THEN <<>>
    ELSE lastCreated

\* update_post looking the post up before it validates the form
update_post_LookupFirst(post_id, form) ==
    /\ request' = Request("update_post", post_id, form)
    /\ noopDeletes' = 0
    /\ UNCHANGED <<seq, pending>>
    /\ IF SqlSelectById(posts, post_id) = <<>>
       THEN /\ response' = ErrorResponse(404, "Post not found.")
            /\ Teardown(get_db(NoG))
            /\ UNCHANGED <<posts, lastCreated, writes>>
       ELSE IF ~FormValid(form)
       THEN /\ response' = ErrorResponse(422, "Title and body are required.")
            /\ Teardown(get_db(NoG))
            /\ UNCHANGED <<posts, lastCreated, writes>>
       ELSE /\ writes < MaxWrites
            /\ writes' = writes + 1
            /\ Teardown(get_db(NoG))
            /\ \E now \in Times :
                  posts' = SqlUpdate(posts, FormTitle(form), FormBody(form),
                                     isoformat(now), post_id)
            /\ response' = UpdateFetch(posts', post_id)
            /\ lastCreated' = Touched(post_id)

\* PUT /posts/<post_id>
update_post(post_id, form) ==
    /\ request' = Request("update_post", post_id, form)
    /\ noopDeletes' = 0
    /\ UNCHANGED <<seq, pending>>
    /\ IF ~FormValid(form)
       THEN /\ response' = ErrorResponse(422, "Title and body are required.")
            /\ Teardown(NoG)
            /\ UNCHANGED <<posts, lastCreated, writes>>
       ELSE /\ writes < MaxWrites
            /\ writes' = writes + 1
            /\ Teardown(get_db(NoG))
            /\ \E now \in Times :
                  posts' = SqlUpdate(posts, FormTitle(form), FormBody(form),
                                     isoformat(now), post_id)
            /\ response' = UpdateFetch(posts', post_id)
            /\ lastCreated' = Touched(post_id)

\* delete_post answering with the list it had read before its DELETE
delete_post_StaleList(post_id) ==
    /\ request' = Request("delete_post", post_id, NoForm)
    /\ posts' = SqlDelete(posts, post_id)
    /\ response' = ListResponse(SqlSelectAll(posts),
                        <<flash_message("Post deleted.", DefaultCategory)>>,
                        PushUrl)
    /\ lastCreated' = Touched(post_id)
    /\ Teardown(get_db(NoG))
    /\ noopDeletes' = IF SqlSelectById(posts, post_id) # <<>> THEN 0
                      ELSE IF noopDeletes < 2 THEN noopDeletes + 1 ELSE 2
    /\ UNCHANGED <<seq, pending, writes>>

\* delete_post treating a missing row as an error
delete_post_NotFound(post_id) ==
    /\ request' = Request("delete_post", post_id, NoForm)
    /\ posts' = SqlDelete(posts, post_id)
    /\ response' = IF SqlSelectById(posts, post_id) = <<>>
                   THEN ErrorResponse(404, "Post not found.")
                   ELSE ListResponse(SqlSelectAll(posts'),
                            <<flash_message("Post deleted.", DefaultCategory)>>,
                            PushUrl)
    /\ lastCreated' = Touched(post_id)
    /\ Teardown(get_db(NoG))
    /\ noopDeletes' = IF SqlSelectById(posts, post_id) # <<>> THEN 0
                      ELSE IF noopDeletes < 2 THEN noopDeletes + 1 ELSE 2
    /\ UNCHANGED <<seq, pending, writes>>

\* DELETE /posts/<post_id>
delete_post(post_id) ==
    /\ request' = Request("delete_post", post_id, NoForm)
    /\ posts' = SqlDelete(posts, post_id)
    /\ response' = ListResponse(SqlSelectAll(posts'),
                        <<flash_message("Post deleted.", DefaultCategory)>>,
                        PushUrl)
    /\ lastCreated' = Touched(post_id)
    /\ Teardown(get_db(NoG))
    /\ noopDeletes' = IF SqlSelectById(posts, post_id) # <<>> THEN 0
                      ELSE IF noopDeletes < 2 THEN noopDeletes + 1 ELSE 2
    /\ UNCHANGED <<seq, pending, writes>>

Next ==
    \/ index
    \/ new_post
    \/ \E form \in Forms : create_post(form)
    \/ \E post_id \in PostIds : view_post(post_id)
    \/ \E post_id \in PostIds : edit_post(post_id)
    \/ \E post_id \in PostIds, form \in Forms : update_post(post_id, form)
    \/ \E post_id \in PostIds : delete_post(post_id)
    \/ \E post_id \in PostIds : confirm_delete(post_id)

Spec == Init /\ [][Next]_vars

(***************************************************************************)
(* Concurrent requests.  The development server handles each request in    *)
(* its own thread, so another request's statements may run between two     *)
(* statements of update_post.  SpecRace splits update_post at its commit.  *)
(***************************************************************************)
\* update_post up to db.commit()
update_post_execute(post_id, form) ==
    /\ pending = <<>>
    /\ noopDeletes' = 0
    /\ seq' = seq
    /\ IF ~FormValid(form)
       THEN /\ request' = Request("update_post", post_id, form)
            /\ response' = ErrorResponse(422, "Title and body are required.")
            /\ Teardown(NoG)
            /\ UNCHANGED <<posts, lastCreated, writes, pending>>
       ELSE /\ writes < MaxWrites
            /\ writes' = writes + 1
            /\ connections' = connections + Len(get_db(NoG))
            /\ opened' = opened
            /\ \E now \in Times :
                  posts' = SqlUpdate(posts, FormTitle(form), FormBody(form),
                                     isoformat(now), post_id)
            /\ pending' = <<[post_id |-> post_id, form |-> form]>>
            /\ lastCreated' = Touched(post_id)
            /\ UNCHANGED <<request, response>>

\* update_post from its SELECT to its return
update_post_fetch ==
    /\ pending # <<>>
    /\ request' = Request("update_post", pending[1].post_id, pending[1].form)
    /\ response' = UpdateFetch(posts, pending[1].post_id)
    /\ pending' = <<>>
    /\ noopDeletes' = 0
    /\ opened' = Len(get_db(NoG))
    /\ connections' = connections - close_db(get_db(NoG))
    /\ UNCHANGED <<posts, seq, lastCreated, writes>>

NextRace ==
    \/ index
    \/ new_post
    \/ \E form \in Forms : create_post(form)
    \/ \E post_id \in PostIds : view_post(post_id)
    \/ \E post_id \in PostIds : edit_post(post_id)
    \/ \E post_id \in PostIds, form \in Forms :
          update_post_execute(post_id, form)
    \/ update_post_fetch
    \/ \E post_id \in PostIds : delete_post(post_id)
    \/ \E post_id \in PostIds : confirm_delete(post_id)

SpecRace == Init /\ [][NextRace]_vars

(***************************************************************************)
(* get_post_preview on its own: one call with a body and a max_length, the *)
(* request being the call and the response, once there, its result.        *)
(***************************************************************************)
PreviewChars == {"#", "*", Backquote, ">", " ", "\n", "a"}

Bodies == UNION {[1..n -> PreviewChars] : n \in 0..MaxBodyLen}

InitPreview ==
    /\ posts = <<>>
    /\ seq = 0
    /\ \E body \in Bodies, max_length \in 0..MaxPreviewLength :
          request = [op |-> "get_post_preview", body |-> body,
                     max_length |-> max_length]
    /\ response = <<>>
    /\ pending = <<>>
    /\ lastCreated = <<>>
    /\ noopDeletes = 0
    /\ writes = 0
    /\ opened = 0
    /\ connections = 0

call_get_post_preview ==
    /\ response = <<>>
    /\ response' = <<get_post_preview(request.body, request.max_length)>>
    /\ UNCHANGED <<posts, seq, request, pending, lastCreated, noopDeletes,
                   writes, opened, connections>>

NextPreview == call_get_post_preview

SpecPreview == InitPreview /\ [][NextPreview]_vars

(***************************************************************************)
(* Further notions the properties are stated in.                           *)
(***************************************************************************)
\* the clock reading a stored timestamp was made from
Reading(stamp) == CHOOSE t \in Times : isoformat(t) = stamp

Ids(rows) == {rows[i].id : i \in 1..Len(rows)}

\* the stored row of an id that is in the store
Stored(rows, post_id) ==
    rows[CHOOSE i \in 1..Len(rows) : rows[i].id = post_id]

\* a response that is the error flash fragment and nothing else
FlashOnly(resp, status) ==
    /\ resp.status = status
    /\ resp.template = ""
    /\ resp.posts = <<>>
    /\ resp.post = <<>>
    /\ Len(resp.flash) = 1
    /\ resp.flash[1].category = "error"
    /\ resp.headers = {}
    /\ resp.exception = ""

\* a response that is the list fragment of the given rows and one flash that
\* is not an error
ListOf(resp, rows) ==
    /\ resp.status = 200
    /\ resp.template = "index.html"
    /\ Len(resp.posts) = Len(rows)
    /\ \A i \in 1..Len(rows) : \E j \in 1..Len(resp.posts) :
          /\ resp.posts[j].id = rows[i].id
          /\ resp.posts[j].title = rows[i].title
          /\ resp.posts[j].body = rows[i].body
          /\ resp.posts[j].created_at = rows[i].created_at
          /\ resp.posts[j].updated_at = rows[i].updated_at
    /\ Len(resp.flash) = 1
    /\ resp.flash[1].category # "error"
    /\ resp.exception = ""

(***************************************************************************)
(* Properties                                                              *)
(***************************************************************************)

\* C1: update_post with a non-empty title and body for an id that is not in
\* the store answers 404 with only the error flash fragment and leaves the
\* store unchanged.
C1_UpdateMissingIdIs404 ==
    [][ (/\ request'.op = "update_post"
         /\ ~Rejected(request'.form)
         /\ request'.post_id \notin Ids(posts))
        => (/\ FlashOnly(response', 404)
            /\ posts' = posts) ]_vars

\* C2: under every interleaving of the requests each request ends with
\* status 200, 404 or 422 and without an unhandled exception; an update_post
\* racing a delete_post ends with the 200 single-post view or with the 404
\* NotFound response.
C2_EveryResponseDefined ==
    request.op # "init_db" =>
        /\ response.status \in {200, 404, 422}
        /\ response.exception = ""
        /\ (request.op = "update_post" /\ ~Rejected(request.form)) =>
              \/ response.status = 200 /\ response.template = "post.html"
              \/ FlashOnly(response, 404)

\* C3: create_post whose title or body is empty after trimming answers 422
\* with only the error flash fragment (no list, no navigation header) and
\* leaves every stored post and the post count as they were.
C3_RejectedCreateChangesNothing ==
    [][ (request'.op = "create_post" /\ Rejected(request'.form))
        => (/\ FlashOnly(response', 422)
            /\ Len(posts') = Len(posts)
            /\ posts' = posts) ]_vars

C3_Witness ==
    /\ request.op = "create_post"
    /\ ~IsBlank(Submitted(request.form, "title"))
    /\ Submitted(request.form, "body") # <<>>
    /\ IsBlank(Submitted(request.form, "body"))
    /\ response.status = 422

\* C4: update_post of an existing post whose title or body is empty after
\* trimming answers 422 with only the error flash fragment and changes
\* nothing: view_post of that post then still shows the original row.
C4_RejectedUpdateChangesNothing ==
    [][ (/\ request'.op = "update_post"
         /\ Rejected(request'.form)
         /\ request'.post_id \in Ids(posts))
        => (/\ FlashOnly(response', 422)
            /\ posts' = posts
            /\ LET shown == LookupResponse(posts', request'.post_id,
                                           "post.html", TRUE)
               IN  /\ shown.status = 200
                   /\ shown.post = <<Stored(posts, request'.post_id)>>) ]_vars

C4_Witness ==
    /\ request.op = "update_post"
    /\ request.post_id \in Ids(posts)
    /\ ~IsBlank(Submitted(request.form, "title"))
    /\ IsBlank(Submitted(request.form, "body"))
    /\ response.status = 422

\* C5 as claimed: every returned list is ordered by created_at descending
\* with ties in insertion order, and a post created (inserted) before
\* another never precedes it.
C5_EarlierCreatedNeverPrecedes ==
    response.template = "index.html" =>
        \A i, j \in 1..Len(response.posts) :
            i < j =>
                /\ Reading(response.posts[i].created_at)
                      >= Reading(response.posts[j].created_at)
                /\ ~(response.posts[i].id < response.posts[j].id)

\* C5 as amended: every returned list is ordered by created_at descending,
\* so a post whose created_at is earlier than another's never precedes it,
\* and posts of equal created_at are listed in insertion order.
C5_ListOrderedByCreatedAtDesc ==
    response.template = "index.html" =>
        \A i, j \in 1..Len(response.posts) :
            i < j =>
                /\ Reading(response.posts[i].created_at)
                      >= Reading(response.posts[j].created_at)
                /\ (response.posts[i].created_at = response.posts[j].created_at
                      => response.posts[i].id < response.posts[j].id)

C5_Witness ==
    /\ response.template = "index.html"
    /\ \E i, j \in 1..Len(response.posts) :
          /\ i < j
          /\ Reading(response.posts[i].created_at)
                > Reading(response.posts[j].created_at)
          /\ response.posts[i].id > response.posts[j].id
    /\ \E i, j \in 1..Len(response.posts) :
          /\ i < j
          /\ response.posts[i].created_at = response.posts[j].created_at

\* C6: delete_post of an id that is not in the store, once or twice in a
\* row, answers 200 with the list of the current posts followed by the
\* "deleted" flash, which is not an error, and leaves the store unchanged.
C6_DeleteOfMissingIdIsNoop ==
    [][ (request'.op = "delete_post" /\ request'.post_id \notin Ids(posts))
        => (/\ posts' = posts
            /\ ListOf(response', posts)
            /\ response'.flash[1].message = "Post deleted.") ]_vars

C6_Witness ==
    /\ request.op = "delete_post"
    /\ request.post_id \notin Ids(posts)
    /\ noopDeletes = 2
    /\ response.status = 200

\* C7: a successful create_post on a store of n posts leaves n+1 posts, the
\* new one with the trimmed title and body and created_at = updated_at, and
\* answers 200 with exactly the posts stored after the insert followed by
\* the success flash; from the empty store create_post("Hello", "World")
\* gives one stored post and a list of one post titled "Hello" with preview
\* "World".
C7_CreateAddsOnePostAndListsStore ==
    [][ (request'.op = "create_post" /\ ~Rejected(request'.form))
        => (/\ Len(posts') = Len(posts) + 1
            /\ \A i \in 1..Len(posts) : posts'[i] = posts[i]
            /\ LET new == posts'[Len(posts')]
               IN  /\ new.id \notin Ids(posts)
                   /\ new.title = Trimmed(Submitted(request'.form, "title"))
                   /\ new.body = Trimmed(Submitted(request'.form, "body"))
                   /\ new.created_at = new.updated_at
            /\ ListOf(response', posts')
            /\ response'.flash[1].message = "Post created successfully!"
            /\ (posts = <<>> /\ request'.form = [title |-> Hello, body |-> World])
                  => (/\ Len(posts') = 1
                      /\ Len(response'.posts) = 1
                      /\ response'.posts[1].title = Hello
                      /\ response'.posts[1].preview = World)) ]_vars

C7_Witness ==
    /\ request.op = "create_post"
    /\ request.form = [title |-> Hello, body |-> World]
    /\ response.status = 200
    /\ Len(posts) = 1
    /\ Len(response.posts) = 1

\* C8: view_post of a post that create_post stored, with no update or
\* delete of it in between, answers 200 with the stored title, which is
\* the trimmed submitted title, and with render_markdown of the stored body.
C8_CreateThenViewShowsPost ==
    (/\ request.op = "view_post"
     /\ lastCreated # <<>>
     /\ request.post_id = lastCreated[1].id)
    => (/\ response.status = 200
        /\ response.template = "post.html"
        /\ Len(response.post) = 1
        /\ request.post_id \in Ids(posts)
        /\ response.post[1].title = Stored(posts, request.post_id).title
        /\ response.post[1].title = lastCreated[1].title
        /\ response.rendered_body
              = render_markdown(Stored(posts, request.post_id).body))

C8_Witness ==
    /\ request.op = "view_post"
    /\ lastCreated # <<>>
    /\ request.post_id = lastCreated[1].id
    /\ response.status = 200
    /\ response.rendered_body # <<>>

\* C9: a successful update_post keeps the post's id and created_at, stores
\* the trimmed submitted title and body, and sets updated_at to a value
\* greater than or equal to its previous value.
C9_UpdateKeepsCreatedAtAdvancesUpdatedAt ==
    [][ (/\ request'.op = "update_post"
         /\ ~Rejected(request'.form)
         /\ request'.post_id \in Ids(posts))
        => (/\ request'.post_id \in Ids(posts')
            /\ LET old == Stored(posts, request'.post_id)
                   new == Stored(posts', request'.post_id)
               IN  /\ new.id = old.id
                   /\ new.created_at = old.created_at
                   /\ new.title = Trimmed(Submitted(request'.form, "title"))
                   /\ new.body = Trimmed(Submitted(request'.form, "body"))
                   /\ Reading(new.updated_at) >= Reading(old.updated_at)) ]_vars

\* C10: in every reachable state every stored post has a title and a body
\* that are non-empty after trimming.
C10_NoStoredFieldBlank ==
    \A i \in 1..Len(posts) :
        ~IsBlank(posts[i].title) /\ ~IsBlank(posts[i].body)

C10_Witness ==
    /\ request.op \in {"create_post", "update_post"}
    /\ response.status = 422
    /\ \E i \in 1..Len(posts) : posts[i].id > Len(seed_posts)
    /\ writes > 0

\* C11: ids are unique and permanent.  No two stored posts share an id, no
\* request changes the id of a stored post (the posts that stay keep their
\* order and their ids), and the id a request assigns is larger than every
\* id assigned before it, those of deleted posts included: seq, which never
\* decreases, bounds every id ever stored.
C11_IdsUniqueAndNeverReused ==
    [][ /\ \A i, j \in 1..Len(posts') :
              posts'[i].id = posts'[j].id => i = j
        /\ Ids(posts) \subseteq 1..seq
        /\ seq' >= seq
        /\ Ids(posts') \subseteq 1..seq'
        /\ \A id \in Ids(posts') \ Ids(posts) : id > seq
        /\ LET kept == SelectSeq(posts, LAMBDA r : r.id \in Ids(posts'))
           IN  /\ Len(kept) <= Len(posts')
               /\ \A i \in 1..Len(kept) : posts'[i].id = kept[i].id ]_vars

\* a post was deleted and then one was created: it got a new id
C11_Witness ==
    /\ request.op = "create_post"
    /\ response.status = 200
    /\ Len(seed_posts) \notin Ids(posts)
    /\ Len(seed_posts) + 1 \in Ids(posts)

\* C12: in every state every stored post has updated_at >= created_at, the
\* two being compared as the clock readings they were made from.
C12_UpdatedAtNotBeforeCreatedAt ==
    \A i \in 1..Len(posts) :
        Reading(posts[i].updated_at) >= Reading(posts[i].created_at)

\* C13: the response carries the header HX-Push-Url: / when the request was
\* a create_post answered 200 or a delete_post, and the response of every
\* other request carries no HX-Push-Url header.
C13_PushUrlOnCreateAndDeleteOnly ==
    request.op # "init_db" =>
        IF \/ request.op = "create_post" /\ response.status = 200
           \/ request.op = "delete_post"
        THEN <<"HX-Push-Url", "/">> \in response.headers
        ELSE \A h \in response.headers : h[1] # "HX-Push-Url"

\* a create_post was answered 200, with the header
C13_Witness ==
    /\ request.op = "create_post"
    /\ response.status = 200
    /\ response.headers = {<<"HX-Push-Url", "/">>}

\* the template of each of the three views of one post
ViewTemplate ==
    [view_post |-> "post.html", edit_post |-> "post_form.html",
     confirm_delete |-> "confirm_delete.html"]

\* C14: view_post, edit_post and confirm_delete answer 200 with their own
\* template filled from the stored post, and no flash, exactly when the id
\* is in the store; for an id that is not in the store they answer 404 with
\* only the error flash fragment.  In both cases the store stays as it was.
C14_ViewsAnswer200IffStored ==
    [][ request'.op \in DOMAIN ViewTemplate
        => (/\ posts' = posts
            /\ IF request'.post_id \in Ids(posts)
               THEN /\ response'.status = 200
                    /\ response'.template = ViewTemplate[request'.op]
                    /\ response'.post = <<Stored(posts, request'.post_id)>>
                    /\ response'.flash = <<>>
                    /\ response'.exception = ""
               ELSE FlashOnly(response', 404)) ]_vars

\* confirm_delete was asked for a post that had been deleted
C14_Witness ==
    /\ request.op = "confirm_delete"
    /\ request.post_id \in 1..Len(seed_posts)
    /\ request.post_id \notin Ids(posts)
    /\ response.status = 404

\* C15: a request opens at most one connection, and when it has ended no
\* connection it opened is open any more, whether it was answered 200, 404
\* or 422 or its handler raised: the connections that are open are those of
\* the requests that have not ended yet.
C15_OneConnectionClosedAtRequestEnd ==
    /\ opened \in {0, 1}
    /\ connections = Len(pending)

\* the handler of a request that had opened its connection raised
C15_Witness ==
    /\ response.exception # ""
    /\ opened = 1
    /\ connections = 0

\* C16: update_post validates before it looks the post up.  With a blank
\* title or body it answers 422 with only the error flash fragment for every
\* id, one that is not in the store included (never 404), and it does so
\* without opening a connection: the store stays as it was.
C16_UpdateValidatesBeforeLookup ==
    [][ (request'.op = "update_post" /\ Rejected(request'.form))
        => (/\ FlashOnly(response', 422)
            /\ response'.flash[1].message = "Title and body are required."
            /\ opened' = 0
            /\ posts' = posts
            /\ seq' = seq) ]_vars

\* update_post with a blank field for an id that is not in the store
C16_Witness ==
    /\ request.op = "update_post"
    /\ Rejected(request.form)
    /\ request.post_id \notin Ids(posts)
    /\ response.status = 422

\* the ids that were assigned and are in the store no more: the deleted posts
Gone(rows, lastId) == (1..lastId) \ Ids(rows)

\* C17: delete_post deletes for good.  The post it deleted is in the store
\* no more and the list of its own response does not hold it; a post once
\* gone stays gone through every later request, create_post included; and
\* whenever a post is gone, a list that is answered does not hold it and
\* view_post, edit_post and confirm_delete of its id answer 404.
C17_DeletedPostNeverReappears ==
    [][ /\ request'.op = "delete_post" /\ request'.post_id \in Ids(posts)
           => request'.post_id \in Gone(posts', seq')
        /\ Gone(posts, seq) \subseteq Gone(posts', seq')
        /\ \A id \in Gone(posts', seq') :
              /\ \A i \in 1..Len(response'.posts) : response'.posts[i].id # id
              /\ response'.post # <<>> => response'.post[1].id # id
              /\ (/\ request'.op \in {"view_post", "edit_post", "confirm_delete"}
                  /\ request'.post_id = id)
                 => FlashOnly(response', 404) ]_vars

\* a create_post was answered after a post had been deleted, and the post has
\* not come back
C17_Witness ==
    /\ request.op = "create_post"
    /\ response.status = 200
    /\ Gone(posts, seq) # {}
    /\ Len(response.posts) = Len(posts)

\* the posts of the store other than the one with the given id, in order
Others(rows, post_id) == SelectSeq(rows, LAMBDA r : r.id # post_id)

\* C18: update_post(id) and delete_post(id) write no post but the one with
\* that id: every other stored post keeps its id, title, body, created_at
\* and updated_at.  update_post leaves the set of stored ids as it was, and
\* delete_post removes no post but the one with its id.
C18_UpdateAndDeleteTouchOnlyTheirPost ==
    [][ /\ request'.op \in {"update_post", "delete_post"}
           => Others(posts', request'.post_id) = Others(posts, request'.post_id)
        /\ request'.op = "update_post" => Ids(posts') = Ids(posts)
        /\ request'.op = "delete_post"
           => /\ Ids(posts') \subseteq Ids(posts)
              /\ Ids(posts) \ Ids(posts') \subseteq {request'.post_id} ]_vars

\* an update_post has written its post while other posts were in the store
C18_Witness ==
    /\ request.op = "update_post"
    /\ response.status = 200
    /\ writes > 0
    /\ Len(Others(posts, request.post_id)) >= 2

\* the markdown characters a preview leaves out
Markers == {"#", "*", Backquote, ">"}

\* a text read from position i on, every run of whitespace between two
\* other characters becoming one space and the runs at the ends nothing
RECURSIVE CollapseFrom(_, _, _)
CollapseFrom(text, i, out) ==
    IF i > Len(text) THEN out
    ELSE IF text[i] \in Whitespace THEN CollapseFrom(text, i + 1, out)
    ELSE CollapseFrom(text, i + 1,
            out \o (IF out # <<>> /\ text[i - 1] \in Whitespace
                    THEN <<" ">> ELSE <<>>) \o <<text[i]>>)

Collapsed(text) == CollapseFrom(text, 1, <<>>)

\* C19: get_post_preview(body, max_length) takes every marker character out
\* of the body, collapses each whitespace run to one space and trims; when
\* that text is longer than max_length the result is its first max_length
\* characters followed by "...", otherwise the text itself.  The text has no
\* marker, no whitespace but single spaces between other characters, and
\* the result is never longer than max_length + 3.
C19_PreviewIsCollapsedTextCutAtMaxLength ==
    response # <<>> =>
        LET result == response[1]
            max_length == request.max_length
            text == Collapsed(SelectSeq(request.body, LAMBDA c : c \notin Markers))
        IN  /\ \A i \in 1..Len(text) :
                  /\ text[i] \notin Markers
                  /\ text[i] \in Whitespace
                     => /\ text[i] = " "
                        /\ 1 < i /\ i < Len(text)
                        /\ text[i + 1] # " "
            /\ IF Len(text) > max_length
               THEN /\ Len(result) = max_length + 3
                    /\ SubSeq(result, 1, max_length) = SubSeq(text, 1, max_length)
                    /\ SubSeq(result, max_length + 1, max_length + 3)
                          = <<".", ".", ".">>
               ELSE result = text
            /\ Len(result) <= max_length + 3

\* the preview of a body with a marker and with whitespace between two
\* other characters was cut
C19_Witness ==
    /\ response # <<>>
    /\ \E i \in 1..Len(request.body) : request.body[i] \in Markers
    /\ \E i, j, k \in 1..Len(request.body) :
          /\ i < j /\ j < k
          /\ request.body[i] \notin Markers \cup Whitespace
          /\ request.body[j] \in Whitespace
          /\ request.body[k] \notin Markers \cup Whitespace
    /\ request.max_length > 0
    /\ Len(response[1]) = request.max_length + 3

====
